---- MODULE Spec2Model ----
(***************************************************************************)
(* A model of bin/collect-todos.py: the TODO aggregator.  Text is modelled *)
(* as sequences of one-character strings, so that the line pattern, the    *)
(* URL parsing, the sort keys and the Markdown rendering are computed the  *)
(* way the script computes them.  A line is held without its newline.      *)
(***************************************************************************)
EXTENDS Integers, Sequences, FiniteSets, TLC

VARIABLES
    pc, run, dirs, files, args, cwd, cfg, repos, pending,
    aggregated, critical_found, collected, enumerated, scanned,
    remote_seen, md_lines, json_out, exit_code, crashed, history,
    sf_pc, sf_in, sf_out,
    dr_pc, dr_in, dr_out

vars == << pc, run, dirs, files, args, cwd, cfg, repos, pending,
           aggregated, critical_found, collected, enumerated, scanned,
           remote_seen, md_lines, json_out, exit_code, crashed, history,
           sf_pc, sf_in, sf_out, dr_pc, dr_in, dr_out >>

mainVars == << pc, run, dirs, files, args, cwd, cfg, repos, pending,
               aggregated, critical_found, collected, enumerated, scanned,
               remote_seen, md_lines, json_out, exit_code, crashed, history >>

scanVars == << sf_pc, sf_in, sf_out >>

remoteVars == << dr_pc, dr_in, dr_out >>

(***************************************************************************)
(* Bounds of the model.                                                    *)
(***************************************************************************)
\* files present under the root at the start of the first run
MaxFiles == 2
\* successive runs of main with the same arguments
MaxRuns == 2
\* lines of a file handed to scan_file on its own
MaxLines == 2

\* is_binary_file's sample_size default
SampleSize == 1024

(***************************************************************************)
(* Characters and strings.                                                 *)
(***************************************************************************)
UpperLetters == <<"A", "B", "C", "D", "E", "F", "G", "H", "I", "J", "K", "L", "M", "N", "O", "P", "Q", "R", "S", "T", "U", "V", "W", "X", "Y", "Z">>

LowerLetters == <<"a", "b", "c", "d", "e", "f", "g", "h", "i", "j", "k", "l", "m", "n", "o", "p", "q", "r", "s", "t", "u", "v", "w", "x", "y", "z">>

Digits == <<"0", "1", "2", "3", "4", "5", "6", "7", "8", "9">>

\* Characters in code point order, for the comparisons sort() makes.
CodePoints ==
    <<"NUL", "\t">> \o <<" ", "!", "#", "$", "%", "&", "'", "(", ")", "*", "+", ",", "-", ".", "/">> \o Digits \o <<":", ";", "<", "=", ">", "?", "@">> \o UpperLetters
    \o <<"[", "\\", "]", "^", "_", "BQ">> \o LowerLetters \o <<"{", "|", "}", "~">>
    \o <<"UC4", "UE2", "UE9", "UEE", "UFC", "U201A", "UF8FF">>

IndexOf(c, s) == CHOOSE i \in 1..Len(s) : s[i] = c

\* ord(c), as far as comparisons need it: the place in CodePoints
OrdTable == [c \in {CodePoints[i] : i \in 1..Len(CodePoints)} |-> IndexOf(c, CodePoints)]

Ord(c) == OrdTable[c]

LowerTable ==
    [c \in {UpperLetters[i] : i \in 1..26} |-> LowerLetters[IndexOf(c, UpperLetters)]]

UpperTable ==
    [c \in {LowerLetters[i] : i \in 1..26} |-> UpperLetters[IndexOf(c, LowerLetters)]]

\* str.lower() and str.upper() on one character
LowerChar(c) == IF c \in DOMAIN LowerTable THEN LowerTable[c] ELSE c

UpperChar(c) == IF c \in DOMAIN UpperTable THEN UpperTable[c] ELSE c

Lower(s) == [i \in 1..Len(s) |-> LowerChar(s[i])]

Upper(s) == [i \in 1..Len(s) |-> UpperChar(s[i])]

\* \s of the pattern, and the characters str.strip() removes
IsSpace(c) == c \in {" ", "\t"}

\* \w of the pattern: letters, digits, underscore (and the letters beyond ASCII)
WordChars ==
    {UpperLetters[i] : i \in 1..26} \cup {LowerLetters[i] : i \in 1..26}
    \cup {Digits[i] : i \in 1..10} \cup {"_", "UC4", "UE2", "UE9", "UEE", "UFC"}

IsWord(c) == c \in WordChars

RECURSIVE SkipSpaces(_, _)
\* the first position >= p of s that holds no whitespace (Len(s) + 1 when none)
SkipSpaces(s, p) ==
    IF p <= Len(s) /\ IsSpace(s[p]) THEN SkipSpaces(s, p + 1) ELSE p

RECURSIVE LastNonSpace(_, _)
LastNonSpace(s, p) ==
    IF p >= 1 /\ IsSpace(s[p]) THEN LastNonSpace(s, p - 1) ELSE p

\* str.strip()
Strip(s) ==
    LET a == SkipSpaces(s, 1)
        b == LastNonSpace(s, Len(s))
    IN  IF a > b THEN <<>> ELSE SubSeq(s, a, b)

StartsWith(s, p) == Len(p) <= Len(s) /\ SubSeq(s, 1, Len(p)) = p

EndsWith(s, p) == Len(p) <= Len(s) /\ SubSeq(s, Len(s) - Len(p) + 1, Len(s)) = p

\* `sub in s` on strings
Contains(s, sub) ==
    \E i \in 1..(Len(s) - Len(sub) + 1) : SubSeq(s, i, i + Len(sub) - 1) = sub

RECURSIVE Find(_, _, _)
\* the first position >= p of s that holds c (0 when none)
Find(s, c, p) ==
    IF p > Len(s) THEN 0 ELSE IF s[p] = c THEN p ELSE Find(s, c, p + 1)

RECURSIVE Split(_, _)
\* str.split(c): the pieces between the occurrences of c
Split(s, c) ==
    LET i == Find(s, c, 1)
    IN  IF i = 0 THEN <<s>>
        ELSE <<SubSeq(s, 1, i - 1)>> \o Split(SubSeq(s, i + 1, Len(s)), c)

RECURSIVE Join(_, _)
\* sep.join(parts)
Join(parts, sep) ==
    IF Len(parts) = 0 THEN <<>>
    ELSE IF Len(parts) = 1 THEN parts[1]
    ELSE parts[1] \o sep \o Join(Tail(parts), sep)

\* str.replace(a, b) for single characters
Replace(s, a, b) == [i \in 1..Len(s) |-> IF s[i] = a THEN b ELSE s[i]]

RECURSIVE Decimal(_)
\* str(n) for n >= 0
Decimal(n) ==
    IF n < 10 THEN <<Digits[n + 1]>> ELSE Decimal(n \div 10) \o <<Digits[(n % 10) + 1]>>

RECURSIVE StrLess(_, _)
\* s < t on strings: by code point, a proper prefix first
StrLess(s, t) ==
    IF Len(t) = 0 THEN FALSE
    ELSE IF Len(s) = 0 THEN TRUE
    ELSE IF s[1] # t[1] THEN Ord(s[1]) < Ord(t[1])
    ELSE StrLess(Tail(s), Tail(t))

SeqToSet(s) == {s[i] : i \in 1..Len(s)}

RECURSIVE Flatten(_)
Flatten(ss) == IF Len(ss) = 0 THEN <<>> ELSE ss[1] \o Flatten(Tail(ss))

RECURSIVE SumSeq(_)
SumSeq(ns) == IF Len(ns) = 0 THEN 0 ELSE ns[1] + SumSeq(Tail(ns))

(***************************************************************************)
(* Program constants.                                                      *)
(***************************************************************************)
DEFAULT_MARKERS == <<<<"T", "O", "D", "O">>, <<"F", "I", "X", "M", "E">>, <<"B", "U", "G">>>>

DEFAULT_EXCLUDED_DIRS ==
    {<<".", "g", "i", "t">>, <<".", "h", "g">>, <<".", "s", "v", "n">>, <<".", "i", "d", "e", "a">>, <<".", "v", "s", "c", "o", "d", "e">>,
     <<"n", "o", "d", "e", "_", "m", "o", "d", "u", "l", "e", "s">>, <<"d", "i", "s", "t">>, <<"b", "u", "i", "l", "d">>, <<"o", "u", "t">>, <<"t", "a", "r", "g", "e", "t">>, <<"_", "_", "p", "y", "c", "a", "c", "h", "e", "_", "_">>, <<".", "v", "e", "n", "v">>, <<"v", "e", "n", "v">>,
     <<".", "n", "e", "x", "t">>, <<".", "t", "u", "r", "b", "o">>, <<".", "t", "o", "x">>, <<".", "m", "y", "p", "y", "_", "c", "a", "c", "h", "e">>, <<".", "p", "y", "t", "e", "s", "t", "_", "c", "a", "c", "h", "e">>}

DEFAULT_INCLUDE_EXTS ==
    {<<".", "p", "y">>, <<".", "k", "t">>, <<".", "j", "a", "v", "a">>, <<".", "g", "o">>, <<".", "t", "s">>, <<".", "t", "s", "x">>, <<".", "j", "s">>, <<".", "j", "s", "x">>,
     <<".", "r", "b">>, <<".", "r", "s">>, <<".", "c">>, <<".", "h">>, <<".", "c", "p", "p">>, <<".", "h", "p", "p">>, <<".", "c", "s">>,
     <<".", "y", "a", "m", "l">>, <<".", "y", "m", "l">>, <<".", "j", "s", "o", "n">>, <<".", "s", "h">>, <<".", "b", "a", "s", "h">>, <<".", "z", "s", "h">>,
     <<".", "m", "d">>, <<".", "t", "x", "t">>, <<".", "t", "o", "m", "l">>, <<".", "i", "n", "i">>, <<".", "t", "f">>, <<".", "t", "f", "v", "a", "r", "s">>, <<".", "d", "o", "c", "k", "e", "r", "f", "i", "l", "e">>, <<"d", "o", "c", "k", "e", "r", "f", "i", "l", "e">>}

CRITICAL_WORDS ==
    {<<"u", "r", "g", "e", "n", "t">>, <<"b", "l", "o", "c", "k", "e", "r">>, <<"s", "e", "c", "u", "r", "i", "t", "y">>, <<"p", "r", "o", "d">>, <<"p", "r", "o", "d", "u", "c", "t", "i", "o", "n">>, <<"p", "0">>, <<"s", "e", "v", "1">>, <<"s", "e", "v", "e", "r", "e">>}

\* the hosts of LINE_LINK_TEMPLATES, in the order of the table
TemplateHosts == <<<<"g", "i", "t", "h", "u", "b", ".", "c", "o", "m">>, <<"g", "i", "t", "l", "a", "b", ".", "c", "o", "m">>, <<"d", "e", "v", ".", "a", "z", "u", "r", "e", ".", "c", "o", "m">>>>

\* the alternatives of the pattern's marker group
PatternMarkers == <<<<"T", "O", "D", "O">>, <<"F", "I", "X", "M", "E">>, <<"B", "U", "G">>>>

(***************************************************************************)
(* TODO_PATTERN.search(line)                                               *)
(***************************************************************************)
\* the marker word w stands at position q, whatever the letter case: (?i)
WordAt(line, q, w) ==
    /\ q + Len(w) - 1 <= Len(line)
    /\ \A k \in 1..Len(w) : UpperChar(line[q + k - 1]) = w[k]

\* (?P<prefix>^|\s|[^\w]) ends at q: the start of the line, or a non-word character before
PrefixBefore(line, q) == q = 1 \/ ~IsWord(line[q - 1])

MarkerAt(line, q) ==
    PrefixBefore(line, q) /\ \E k \in 1..Len(PatternMarkers) : WordAt(line, q, PatternMarkers[k])

RECURSIVE FirstMarkerFrom(_, _)
FirstMarkerFrom(line, q) ==
    IF q > Len(line) THEN 0
    ELSE IF MarkerAt(line, q) THEN q
    ELSE FirstMarkerFrom(line, q + 1)

\* search() takes the leftmost match: the position of its marker, 0 when no match
MarkerPos(line) == FirstMarkerFrom(line, 1)

MarkerLen(line, q) ==
    LET k == CHOOSE j \in 1..Len(PatternMarkers) : WordAt(line, q, PatternMarkers[j])
    IN  Len(PatternMarkers[k])

\* The optional group after the marker at r: [tag, text start].  The first
\* alternative (\s*[:\-\s]\s*) is tried first, then (\s*\(\s*tag\s*\)\s*[:\-]?\s*),
\* then nothing.
AfterMarker(line, r) ==
    LET s == SkipSpaces(line, r)
        close == Find(line, ")", r + 1)
    IN  IF s <= Len(line) /\ line[s] \in {":", "-"}
        THEN [tag |-> <<>>, start |-> SkipSpaces(line, s + 1)]
        ELSE IF s > r
        THEN [tag |-> <<>>, start |-> s]
        ELSE IF r <= Len(line) /\ line[r] = "(" /\ close > r + 1
        THEN LET t == SkipSpaces(line, close + 1)
             IN  [tag |-> SubSeq(line, r + 1, close - 1),
                  start |-> IF t <= Len(line) /\ line[t] \in {":", "-"}
                            THEN SkipSpaces(line, t + 1) ELSE t]
        ELSE [tag |-> <<>>, start |-> r]

\* the match object's groups: marker, tag, text (found = FALSE when no match)
PatternSearch(line) ==
    LET q == MarkerPos(line)
    IN  IF q = 0 THEN [found |-> FALSE, marker |-> <<>>, tag |-> <<>>, text |-> <<>>]
        ELSE LET r == q + MarkerLen(line, q)
                 a == AfterMarker(line, r)
             IN  [found |-> TRUE,
                  marker |-> SubSeq(line, q, r - 1),
                  tag |-> a.tag,
                  text |-> SubSeq(line, a.start, Len(line))]

(***************************************************************************)
(* scan_file                                                               *)
(***************************************************************************)
\* the membership test `marker not in markers`: the marker as written in the file
MarkerKept(marker, markers) == \E k \in 1..Len(markers) : markers[k] = marker

\* the entry of line i, or none
ScanLine(line, i, markers) ==
    LET m == PatternSearch(line)
    IN  IF m.found /\ MarkerKept(m.marker, markers)
        THEN << [line |-> i, marker |-> m.marker, tag |-> Strip(m.tag),
                 text |-> Strip(m.text), preview |-> Strip(line)] >>
        ELSE <<>>

\* the lines the loop gets to see: all of them, or those before the read that raises
LinesRead(lines, failAt) == IF failAt = 0 THEN Len(lines) ELSE failAt - 1

\* scan_file(path, markers): failAt = k > 0 is a read that raises at line k (k = 1:
\* on open); the handler passes and the function returns what it has appended
ScanFile(lines, failAt, markers) ==
    Flatten([i \in 1..LinesRead(lines, failAt) |-> ScanLine(lines[i], i, markers)])

\* looks_critical with the test made on the text as written: a variant of the code,
\* which the critical gate must tell from it
LooksCriticalAsWritten(text) == \E word \in CRITICAL_WORDS : Contains(text, word)

\* looks_critical(text)
LooksCritical(text) == \E word \in CRITICAL_WORDS : Contains(Lower(text), word)

(***************************************************************************)
(* detect_remote_info and build_line_link                                  *)
(***************************************************************************)
\* `return None`
NoRemote ==
    [found |-> FALSE, host |-> <<>>, orgrepo |-> <<>>, repo |-> <<>>, default_branch |-> <<>>]

\* a git command that exits non-zero or cannot be started: check_output raises
GitFails == [ok |-> FALSE, out |-> <<>>]

GitPrints(s) == [ok |-> TRUE, out |-> s]

\* the normalisation of the URL: a trailing ".git" is cut
NormalizeUrl(url) ==
    IF EndsWith(url, <<".", "g", "i", "t">>) THEN SubSeq(url, 1, Len(url) - 4) ELSE url

\* the host and org/repo of the URL; found = FALSE for `return None`, for the
\* ValueError of an unpacking that the outer handler turns into None, and for an
\* http URL with fewer than five parts (host stays None)
ParseRemoteUrl(remote_url) ==
    IF StartsWith(remote_url, <<"g", "i", "t", "@">>)
    THEN LET rest == SubSeq(remote_url, Find(remote_url, "@", 1) + 1, Len(remote_url))
             colon == Find(rest, ":", 1)
         IN  IF colon = 0 THEN [found |-> FALSE, host |-> <<>>, orgrepo |-> <<>>]
             ELSE [found |-> TRUE,
                   host |-> SubSeq(rest, 1, colon - 1),
                   orgrepo |-> SubSeq(rest, colon + 1, Len(rest))]
    ELSE IF StartsWith(remote_url, <<"h", "t", "t", "p", "s", ":", "/", "/">>) \/ StartsWith(remote_url, <<"h", "t", "t", "p", ":", "/", "/">>)
    THEN LET parts == Split(remote_url, "/")
         IN  IF Len(parts) >= 5
             THEN [found |-> TRUE, host |-> parts[3],
                   orgrepo |-> Join(SubSeq(parts, 4, 5), <<"/">>)]
             ELSE [found |-> FALSE, host |-> <<>>, orgrepo |-> <<>>]
    ELSE [found |-> FALSE, host |-> <<>>, orgrepo |-> <<>>]

\* s.split("/")[-1]
LastSegment(s) == LET parts == Split(s, "/") IN parts[Len(parts)]

\* the branch: origin/HEAD's last segment, else the current branch, else "main"
DetectBranch(symref, revparse) ==
    IF symref.ok THEN LastSegment(Strip(symref.out))
    ELSE IF revparse.ok THEN Strip(revparse.out)
    ELSE <<"m", "a", "i", "n">>

\* detect_remote_info(repo_dir), given what the three git commands do there
DetectRemoteInfo(git) ==
    IF ~git.url.ok THEN NoRemote
    ELSE LET p == ParseRemoteUrl(NormalizeUrl(Strip(git.url.out)))
         IN  IF ~p.found \/ p.host = <<>> \/ p.orgrepo = <<>> THEN NoRemote
             ELSE [found |-> TRUE, host |-> p.host, orgrepo |-> p.orgrepo,
                   repo |-> LastSegment(p.orgrepo),
                   default_branch |-> DetectBranch(git.symref, git.revparse)]

\* the test `h in host` of build_line_link
HostMatches(h, host) == Contains(host, h)

\* LINE_LINK_TEMPLATES[k][1].format(...)
FormatTemplate(k, remote, branch, rel_path, line_no) ==
    IF k = 1
    THEN <<"h", "t", "t", "p", "s", ":", "/", "/">> \o remote.host \o <<"/">> \o remote.orgrepo \o <<"/", "b", "l", "o", "b", "/">> \o branch
         \o <<"/">> \o rel_path \o <<"#", "L">> \o Decimal(line_no)
    ELSE IF k = 2
    THEN <<"h", "t", "t", "p", "s", ":", "/", "/">> \o remote.host \o <<"/">> \o remote.orgrepo \o <<"/", "-", "/", "b", "l", "o", "b", "/">> \o branch
         \o <<"/">> \o rel_path \o <<"#", "L">> \o Decimal(line_no)
    ELSE <<"h", "t", "t", "p", "s", ":", "/", "/">> \o remote.host \o <<"/">> \o remote.orgrepo \o <<"/", "_", "g", "i", "t", "/">> \o remote.repo
         \o <<"?", "p", "a", "t", "h", "=", "/">> \o rel_path \o <<"&", "v", "e", "r", "s", "i", "o", "n", "=", "G", "B">> \o branch \o <<"&", "l", "i", "n", "e", "=">> \o Decimal(line_no)

\* build_line_link(remote, branch, rel_path, line_no): the first template whose host
\* matches, or None (the empty string here: the caller takes `link or ""`)
BuildLineLink(remote, branch, rel_path, line_no) ==
    IF \E k \in 1..Len(TemplateHosts) : HostMatches(TemplateHosts[k], remote.host)
    THEN LET k == CHOOSE j \in 1..Len(TemplateHosts) :
                      /\ HostMatches(TemplateHosts[j], remote.host)
                      /\ \A i \in 1..(j - 1) : ~HostMatches(TemplateHosts[i], remote.host)
         IN  FormatTemplate(k, remote, branch, rel_path, line_no)
    ELSE <<>>

(***************************************************************************)
(* The file system under the root.  A path is the sequence of its names    *)
(* from the root; a file holds its lines, whether opening it fails         *)
(* (unreadable), and the line at which reading it in scan_file raises      *)
(* (failAt, 0 for never).                                                  *)
(***************************************************************************)
IsPrefix(d, p) == Len(d) <= Len(p) /\ SubSeq(p, 1, Len(d)) = d

\* p.is_dir()
IsDir(ds, p) == p \in ds

\* the names of the directories directly in d
SubdirNames(ds, d) == {p[Len(p)] : p \in {q \in ds : Len(q) = Len(d) + 1 /\ IsPrefix(d, q)}}

\* the files directly in d
FilesIn(fs, d) == {f \in fs : Len(f.path) = Len(d) + 1 /\ IsPrefix(d, f.path)}

RECURSIVE SortNames(_)
\* sorted(names)
SortNames(S) ==
    IF S = {} THEN <<>>
    ELSE LET m == CHOOSE x \in S : \A y \in S \ {x} : StrLess(x, y)
         IN  <<m>> \o SortNames(S \ {m})

Reverse(s) == [i \in 1..Len(s) |-> s[Len(s) + 1 - i]]

\* The orders in which the file system may list the entries named S: the order
\* is the file system's own; two of them are modelled.
ListingOrders(S) == {SortNames(S), Reverse(SortNames(S))}

\* p.suffix of pathlib: from the last dot, unless it leads or ends the name
Suffix(name) ==
    LET dots == {i \in 1..Len(name) : name[i] = "."}
        i == IF dots = {} THEN 0 ELSE CHOOSE j \in dots : \A k \in dots : k <= j
    IN  IF 1 < i /\ i < Len(name) THEN SubSeq(name, i, Len(name)) ELSE <<>>

\* `p.suffix.lower() if p.suffix else p.name.lower()`
ExtOf(name) == IF Suffix(name) # <<>> THEN Lower(Suffix(name)) ELSE Lower(name)

\* the first sample_size bytes of the file
FileSample(f) ==
    LET bytes == Join(f.lines, <<"\n">>)
    IN  SubSeq(bytes, 1, IF Len(bytes) < SampleSize THEN Len(bytes) ELSE SampleSize)

\* is_binary_file(path): a NUL byte, a byte outside textchars, or a failing open
IsBinaryFile(f) ==
    f.unreadable \/ \E i \in 1..Len(FileSample(f)) : FileSample(f)[i] = "NUL"

\* should_exclude_dir without the rule for dotted names: a variant of the code, which
\* the exclusion property must tell from it
ShouldExcludeListedOnly(dirname, excluded) == dirname \in excluded

\* should_exclude_dir(dirname, excluded)
ShouldExcludeDir(dirname, excluded) ==
    dirname \in excluded \/ (StartsWith(dirname, <<".">>) /\ dirname # <<".">>)

\* the test of collect_files on one file
Eligible(f, include_exts) == ExtOf(f.path[Len(f.path)]) \in include_exts /\ ~IsBinaryFile(f)

RECURSIVE ConcatChoices(_)
\* one sequence from each set of the sequence of sets, concatenated
ConcatChoices(sets) ==
    IF Len(sets) = 0 THEN {<<>>}
    ELSE {a \o b : a \in sets[1], b \in ConcatChoices(Tail(sets))}

RECURSIVE WalkOrders(_, _, _, _, _)
\* collect_files below directory d: os.walk yields d's files, then walks the
\* subdirectories that were not pruned, each listing in the file system's order
WalkOrders(ds, fs, d, include_exts, excluded_dirs) ==
    LET here == {f \in FilesIn(fs, d) : Eligible(f, include_exts)}
        byName(n) == CHOOSE f \in here : f.path[Len(f.path)] = n
        fileOrders == {[i \in 1..Len(o) |-> byName(o[i])] :
                          o \in ListingOrders({f.path[Len(f.path)] : f \in here})}
        kept == {n \in SubdirNames(ds, d) : ~ShouldExcludeDir(n, excluded_dirs)}
        below(o) == ConcatChoices([i \in 1..Len(o) |->
                        WalkOrders(ds, fs, d \o <<o[i]>>, include_exts, excluded_dirs)])
    IN  {a \o b : a \in fileOrders, b \in UNION {below(o) : o \in ListingOrders(kept)}}

\* collect_files(repo_dir, include_exts, excluded_dirs): the lists it can return
CollectFiles(ds, fs, repo_name, include_exts, excluded_dirs) ==
    WalkOrders(ds, fs, <<repo_name>>, include_exts, excluded_dirs)

(***************************************************************************)
(* main: arguments and the scan of one repo                                *)
(***************************************************************************)
\* `[x.strip() for x in s.split(",") if x.strip()]`
RECURSIVE NonEmpty(_)
NonEmpty(ss) ==
    IF Len(ss) = 0 THEN <<>>
    ELSE (IF ss[1] = <<>> THEN <<>> ELSE <<ss[1]>>) \o NonEmpty(Tail(ss))

CommaList(s) ==
    LET parts == Split(s, ",") IN NonEmpty([i \in 1..Len(parts) |-> Strip(parts[i])])

\* include_exts, markers and excluded_dirs of main
ParseConfig(a) ==
    [include_exts |-> {Lower(e) : e \in SeqToSet(CommaList(a.include_ext))},
     markers |-> LET ms == CommaList(a.marker) IN [i \in 1..Len(ms) |-> Upper(ms[i])],
     excluded_dirs |-> DEFAULT_EXCLUDED_DIRS \cup
                       (IF a.extra_exclude # <<>> THEN SeqToSet(CommaList(a.extra_exclude)) ELSE {})]

\* discovery that keeps every directory of the root: a variant of the code, which the
\* discovery property must tell from it
DiscoveredNamesAll(ds) == SubdirNames(ds, <<>>)

\* the names repo discovery keeps: the directories of the root, except 'super'
DiscoveredNames(ds) == {n \in SubdirNames(ds, <<>>) : n # <<"s", "u", "p", "e", "r">>}

\* os.path.relpath(file_path, repo_dir) with its separators replaced
RelFromRepo(path) == Replace(Join(Tail(path), <<"/">>), "\\", "/")

\* the findings of one file, as main appends them to aggregated[repo_name]
FileFindings(f, repo_name, remote_info, a, markers) ==
    LET entries == ScanFile(f.lines, f.failAt, markers)
        branch == IF a.branch # <<>> THEN a.branch
                  ELSE IF remote_info.found THEN remote_info.default_branch ELSE <<"m", "a", "i", "n">>
        rel == RelFromRepo(f.path)
    IN  [i \in 1..Len(entries) |->
            [file |-> rel,
             line |-> entries[i].line,
             marker |-> entries[i].marker,
             tag |-> entries[i].tag,
             text |-> entries[i].text,
             preview |-> entries[i].preview,
             link |-> IF remote_info.found /\ ~a.no_remote_links
                      THEN BuildLineLink(remote_info, branch, rel, entries[i].line)
                      ELSE <<>>,
             repo |-> repo_name]]

\* aggregated.setdefault(repo_name, []) made before the loop over the items, so that
\* a repo with no item has an entry: a variant of the code, which the property of the
\* empty repo must tell from it
AppendFindingsWithEntry(agg, repo_name, items) ==
    IF \E k \in 1..Len(agg) : agg[k].repo = repo_name
    THEN [k \in 1..Len(agg) |->
             IF agg[k].repo = repo_name
             THEN [repo |-> repo_name, items |-> agg[k].items \o items]
             ELSE agg[k]]
    ELSE Append(agg, [repo |-> repo_name, items |-> items])

\* aggregated.setdefault(repo_name, []).append(item), for the items in turn:
\* aggregated is the dict in insertion order, a sequence of [repo, items]
AppendFindings(agg, repo_name, items) ==
    IF Len(items) = 0 THEN agg
    ELSE IF \E k \in 1..Len(agg) : agg[k].repo = repo_name
    THEN [k \in 1..Len(agg) |->
             IF agg[k].repo = repo_name
             THEN [repo |-> repo_name, items |-> agg[k].items \o items]
             ELSE agg[k]]
    ELSE Append(agg, [repo |-> repo_name, items |-> items])

\* the sort key's order: (marker, file, line)
KeyLess(x, y) ==
    \/ StrLess(x.marker, y.marker)
    \/ x.marker = y.marker /\ StrLess(x.file, y.file)
    \/ x.marker = y.marker /\ x.file = y.file /\ x.line < y.line

RECURSIVE InsertSorted(_, _)
\* x put after the items that are not greater: the sort is stable
InsertSorted(sorted, x) ==
    IF Len(sorted) = 0 THEN <<x>>
    ELSE IF KeyLess(x, sorted[Len(sorted)])
    THEN Append(InsertSorted(SubSeq(sorted, 1, Len(sorted) - 1), x), sorted[Len(sorted)])
    ELSE Append(sorted, x)

\* the list left as it was appended to: a variant of the code, which the property of
\* the outputs' order must tell from it
ItemsUnsorted(items) == items

RECURSIVE SortItems(_)
\* list.sort(key=lambda x: (x["marker"], x["file"], x["line"]))
SortItems(items) ==
    IF Len(items) = 0 THEN <<>>
    ELSE InsertSorted(SortItems(SubSeq(items, 1, Len(items) - 1)), items[Len(items)])

(***************************************************************************)
(* Rendering                                                               *)
(***************************************************************************)
\* datetime.utcnow().isoformat(timespec='seconds'), frozen
Timestamp == <<"2", "0", "2", "4", "-", "0", "1", "-", "0", "1", "T", "0", "0", ":", "0", "0", ":", "0", "0">>

\* str(root): the resolved root directory
RootPath == <<"/", "w", "o", "r", "k">>

RECURSIVE ItemsWithMarker(_, _)
\* by_marker[marker]: the items of that marker, in the order of the list
ItemsWithMarker(items, marker) ==
    IF Len(items) = 0 THEN <<>>
    ELSE (IF items[1].marker = marker THEN <<items[1]>> ELSE <<>>)
         \o ItemsWithMarker(Tail(items), marker)

\* one bullet: the link or the `file:line` location, the tag, the text or the preview
BulletLine(it) ==
    LET tag_str == IF it.tag # <<>> THEN <<" ", "*", "*", "[">> \o it.tag \o <<"]", "*", "*">> ELSE <<>>
        location == IF it.link # <<>> THEN it.link
                    ELSE <<"BQ">> \o it.file \o <<":">> \o Decimal(it.line) \o <<"BQ">>
        preview == IF it.text # <<>> THEN it.text ELSE it.preview
    IN  <<"-", " ">> \o location \o tag_str \o <<" ", "U201A", "UC4", "UEE", " ">> \o preview

\* the sub-section of one marker of a repo
MarkerSection(items, marker) ==
    LET its == ItemsWithMarker(items, marker)
    IN  <<<<"#", "#", "#", " ">> \o marker \o <<" ", "(">> \o Decimal(Len(its)) \o <<")">>, <<>>>>
        \o [i \in 1..Len(its) |-> BulletLine(its[i])]
        \o << <<>> >>

\* the markers of a repo's section, in the order they are rendered
SectionMarkers(items) == SortNames({items[i].marker : i \in 1..Len(items)})

\* the section of one repo
RepoSection(entry) ==
    LET ms == SectionMarkers(entry.items)
    IN  <<<<"#", "#", " ">> \o entry.repo \o <<" ", "(">> \o Decimal(Len(entry.items)) \o <<")">>, <<>>>>
        \o Flatten([k \in 1..Len(ms) |-> MarkerSection(entry.items, ms[k])])
        \o << <<>> >>

\* the entries of aggregated in the order of sorted(aggregated.keys())
SectionOrder(agg) ==
    LET names == SortNames({agg[k].repo : k \in 1..Len(agg)})
    IN  [i \in 1..Len(names) |-> agg[CHOOSE k \in 1..Len(agg) : agg[k].repo = names[i]]]

TotalCount(agg) == SumSeq([k \in 1..Len(agg) |-> Len(agg[k].items)])

\* md_lines of main
RenderMarkdown(agg, repo_list, markers) ==
    LET total == TotalCount(agg)
        sections == SectionOrder(agg)
    IN  <<<<"#", " ", "C", "o", "n", "s", "o", "l", "i", "d", "a", "t", "e", "d", " ", "T", "O", "D", "O", "s">>,
          <<>>,
          <<"-", " ", "G", "e", "n", "e", "r", "a", "t", "e", "d", ":", " ">> \o Timestamp \o <<"Z">>,
          <<"-", " ", "R", "o", "o", "t", " ", "s", "c", "a", "n", "n", "e", "d", ":", " ", "BQ">> \o RootPath \o <<"BQ">>,
          <<"-", " ", "R", "e", "p", "o", "s", " ", "s", "c", "a", "n", "n", "e", "d", ":", " ">> \o (IF Len(repo_list) > 0 THEN Join(repo_list, <<",", " ">>) ELSE <<"(", "n", "o", "n", "e", ")">>),
          <<"-", " ", "M", "a", "r", "k", "e", "r", "s", ":", " ">> \o Join(markers, <<",", " ">>),
          <<>>,
          <<"*", "*", "T", "o", "t", "a", "l", " ", "i", "t", "e", "m", "s", ":", "*", "*", " ">> \o Decimal(total)>>
        \o (IF total = 0
            THEN << <<>>,
                    <<">", " ", "UF8FF", "UFC", "UE9", "UE2">>
                    \o <<" ", "N", "o", " ", "T", "O", "D", "O", "-", "l", "i", "k", "e", " ", "m", "a", "r", "k", "e", "r", "s", " ", "f", "o", "u", "n", "d", " ", "i", "n", " ", "t", "h", "e", " ", "s", "c", "a", "n", "n", "e", "d", " ", "r", "e", "p", "o", "s", "i", "t", "o", "r", "i", "e", "s", ".">> >>
            ELSE <<>>)
        \o << <<>> >>
        \o Flatten([k \in 1..Len(sections) |-> RepoSection(sections[k])])

\* the lines a later read of the written text yields: "\n".join(md_lines), split
\* at its newlines (a text that ends with a newline has no last empty line)
WrittenLines(lines) ==
    IF Len(lines) > 0 /\ lines[Len(lines)] = <<>> THEN SubSeq(lines, 1, Len(lines) - 1) ELSE lines

\* flat: the items of aggregated, repo after repo in the order of the dict
FlatItems(agg) == Flatten([k \in 1..Len(agg) |-> agg[k].items])

\* the object json.dumps writes
RenderJson(agg, repo_list, markers) ==
    [generated_utc |-> Timestamp \o <<"Z">>, root |-> RootPath, repos |-> repo_list,
     markers |-> markers, count |-> Len(FlatItems(agg)), items |-> FlatItems(agg)]

(***************************************************************************)
(* The inputs of the model: the files, the git remotes, the arguments.     *)
(***************************************************************************)
File(path, lines) == [path |-> path, lines |-> lines, failAt |-> 0, unreadable |-> FALSE]

\* the files a root may hold at the start
FileUniverse ==
    { File(<<<<"a">>, <<"s", "r", "c">>, <<"x", ".", "p", "y">>>>,
           <<<<"#", " ", "T", "O", "D", "O", ":", " ", "u", "r", "g", "e", "n", "t", " ", "f", "i", "x">>, <<"x", " ", "=", " ", "1">>, <<"#", " ", "F", "I", "X", "M", "E", " ", "-", " ", "h", "a", "n", "d", "l", "e", " ", "n", "u", "l", "l", " ", "c", "a", "s", "e">>,
             <<"#", " ", "t", "o", "d", "o", ":", " ", "l", "o", "w", "e", "r", " ", "c", "a", "s", "e">>, <<"/", "/", " ", "T", "O", "D", "O", "(", "a", "l", "i", "c", "e", ")", ":", " ", "f", "i", "x", " ", "r", "a", "c", "e", " ", "c", "o", "n", "d", "i", "t", "i", "o", "n">>>>),
      File(<<<<"a">>, <<"b", "u", "i", "l", "d">>, <<"y", ".", "p", "y">>>>, <<<<"#", " ", "B", "U", "G", ":", " ", "i", "n", " ", "b", "u", "i", "l", "d">>>>),
      File(<<<<"a">>, <<".", "h", "i", "d">>, <<"h", ".", "p", "y">>>>, <<<<"#", " ", "T", "O", "D", "O", ":", " ", "h", "i", "d", "d", "e", "n">>>>),
      File(<<<<"a">>, <<"v", "e", "n", "d", "o", "r">>, <<"v", ".", "p", "y">>>>, <<<<"#", " ", "H", "A", "C", "K", ":", " ", "v", "e", "n", "d", "o", "r", "e", "d">>, <<"#", " ", "T", "O", "D", "O", ":", " ", "v", "e", "n", "d", "o", "r", "e", "d">>>>),
      File(<<<<"b", "u", "i", "l", "d">>, <<"z", ".", "p", "y">>>>, <<<<"#", " ", "T", "O", "D", "O", ":", " ", "r", "e", "p", "o", " ", "n", "a", "m", "e", "d", " ", "b", "u", "i", "l", "d">>>>),
      File(<<<<"t", "o", "o", "l", "s">>, <<"D", "o", "c", "k", "e", "r", "f", "i", "l", "e">>>>, <<<<"#", " ", "F", "I", "X", "M", "E", "(", "#", "1", "2", ")", " ", "-", " ", "S", "e", "c", "u", "r", "i", "t", "y", " ", "h", "o", "l", "e">>>>),
      [path |-> <<<<"a">>, <<"f", "l", "a", "k", "y", ".", "p", "y">>>>, lines |-> <<<<"#", " ", "T", "O", "D", "O", ":", " ", "o", "n", "e">>, <<"#", " ", "B", "U", "G", ":", " ", "t", "w", "o">>>>,
       failAt |-> 2, unreadable |-> FALSE],
      File(<<<<"a">>, <<"b", "l", "o", "b", ".", "p", "y">>>>, <<<<"#", " ", "T", "O", "D", "O", ":", " ", "x">> \o <<"NUL">> >>),
      File(<<<<"a">>, <<"d", "a", "t", "a", ".", "b", "i", "n">>>>, <<<<"T", "O", "D", "O", ":", " ", "n", "o", "t", " ", "a", " ", "t", "e", "x", "t", " ", "e", "x", "t", "e", "n", "s", "i", "o", "n">>>>) }

\* the directories every root of the model holds
BaseDirs == {<<>>, <<<<"s", "u", "p", "e", "r">>>>, <<<<"t", "o", "o", "l", "s">>>>, <<<<"e", "m", "p", "t", "y">>>>}

\* the directories of a root that holds the files fs
DirsOf(fs) ==
    BaseDirs \cup UNION {{SubSeq(f.path, 1, k) : k \in 1..(Len(f.path) - 1)} : f \in fs}

\* what git answers in each repo directory: the origin URL, origin/HEAD, the
\* current branch
GitOf(repo_name) ==
    IF repo_name = <<"a">>
    THEN [url |-> GitPrints(<<"g", "i", "t", "@", "g", "i", "t", "h", "u", "b", ".", "c", "o", "m", ":", "o", "r", "g", "/", "a", ".", "g", "i", "t">>),
          symref |-> GitPrints(<<"r", "e", "f", "s", "/", "r", "e", "m", "o", "t", "e", "s", "/", "o", "r", "i", "g", "i", "n", "/", "t", "r", "u", "n", "k">>), revparse |-> GitPrints(<<"w", "o", "r", "k">>)]
    ELSE IF repo_name = <<"t", "o", "o", "l", "s">>
    THEN [url |-> GitPrints(<<"h", "t", "t", "p", "s", ":", "/", "/", "n", "o", "t", "g", "i", "t", "h", "u", "b", ".", "c", "o", "m", "/", "o", "r", "g", "/", "t", "o", "o", "l", "s">>),
          symref |-> GitFails, revparse |-> GitPrints(<<"d", "e", "v">>)]
    ELSE IF repo_name = <<"b", "u", "i", "l", "d">>
    THEN [url |-> GitPrints(<<"h", "t", "t", "p", "s", ":", "/", "/", "e", "x", "a", "m", "p", "l", "e", ".", "o", "r", "g", "/", "o", "r", "g", "/", "b", "u", "i", "l", "d", ".", "g", "i", "t">>),
          symref |-> GitFails, revparse |-> GitFails]
    ELSE IF repo_name = <<"e", "m", "p", "t", "y">>
    THEN [url |-> GitPrints(<<"g", "i", "t", "@", "g", "i", "t", "h", "u", "b", ".", "c", "o", "m", ":", "s", "o", "l", "o">>),
          symref |-> GitFails, revparse |-> GitFails]
    ELSE [url |-> GitFails, symref |-> GitFails, revparse |-> GitFails]

\* parse_args() with no argument given
DefaultArgs ==
    [repos |-> <<>>,
     out_md |-> <<<<"T", "O", "D", "O", ".", "m", "d">>>>,
     out_json |-> <<>>,
     marker |-> Join(DEFAULT_MARKERS, <<",">>),
     include_ext |-> Join(SortNames(DEFAULT_INCLUDE_EXTS), <<",">>),
     extra_exclude |-> <<>>,
     no_remote_links |-> FALSE,
     branch |-> <<>>]

\* the option settings of the model: the defaults, and the defaults with one
\* option given
OptionChoices ==
    { DefaultArgs,
      [DefaultArgs EXCEPT !.out_json = <<"/", "t", "m", "p", "/", "o", "u", "t", ".", "j", "s", "o", "n">>],
      [DefaultArgs EXCEPT !.out_md = <<<<"r", "e", "p", "o", "r", "t", "s">>, <<"T", "O", "D", "O", ".", "m", "d">>>>],
      [DefaultArgs EXCEPT !.marker = <<"t", "o", "d", "o", ",", " ", "h", "a", "c", "k">>],
      [DefaultArgs EXCEPT !.extra_exclude = <<"v", "e", "n", "d", "o", "r">>],
      [DefaultArgs EXCEPT !.no_remote_links = TRUE],
      [DefaultArgs EXCEPT !.branch = <<"r", "e", "l">>, !.out_json = <<"/", "t", "m", "p", "/", "o", "u", "t", ".", "j", "s", "o", "n">>] }

Inside(path) == [inside |-> TRUE, path |-> path]

\* a directory that is not under the root
Elsewhere == [inside |-> FALSE, path |-> <<>>]

\* The runs of the model on an existing root: the arguments and the directory
\* the run is made from.  With discovery, every option setting from 'super' and
\* two from another directory of the root; with --repos, one repo, or a list
\* with a repeated and a missing name.
RunChoices ==
    {[args |-> o, cwd |-> Inside(<<<<"s", "u", "p", "e", "r">>>>)] : o \in OptionChoices}
    \cup {[args |-> DefaultArgs, cwd |-> Inside(<<<<"t", "o", "o", "l", "s">>>>)],
          [args |-> [DefaultArgs EXCEPT !.out_json = <<"/", "t", "m", "p", "/", "o", "u", "t", ".", "j", "s", "o", "n">>],
           cwd |-> Inside(<<<<"t", "o", "o", "l", "s">>>>)],
          [args |-> DefaultArgs, cwd |-> Elsewhere],
          [args |-> [DefaultArgs EXCEPT !.repos = <<"a">>], cwd |-> Inside(<<<<"s", "u", "p", "e", "r">>>>)],
          [args |-> [DefaultArgs EXCEPT !.repos = <<"t", "o", "o", "l", "s", ",", " ", "a", ",", "n", "o", "s", "u", "c", "h", ",", "a">>],
           cwd |-> Inside(<<<<"s", "u", "p", "e", "r">>>>)],
          [args |-> [DefaultArgs EXCEPT !.repos = <<"t", "o", "o", "l", "s", ",", " ", "a", ",", "n", "o", "s", "u", "c", "h", ",", "a">>,
                                        !.out_json = <<"/", "t", "m", "p", "/", "o", "u", "t", ".", "j", "s", "o", "n">>],
           cwd |-> Inside(<<<<"t", "o", "o", "l", "s">>>>)]}

\* the runs of the model on a root that does not exist
RunChoicesNoRoot ==
    {[args |-> DefaultArgs, cwd |-> Elsewhere],
     [args |-> [DefaultArgs EXCEPT !.repos = <<"a">>, !.out_json = <<"/", "t", "m", "p", "/", "o", "u", "t", ".", "j", "s", "o", "n">>],
      cwd |-> Elsewhere]}

(***************************************************************************)
(* main as a state machine.  pc is the place in main; a run that has       *)
(* exited may be followed by another run with the same arguments, from the *)
(* same directory, on the file system the earlier run left.                *)
(***************************************************************************)
RECURSIVE SortedNames(_)
\* sorted(repos) on a list of names
SortedNames(names) ==
    IF Len(names) = 0 THEN <<>>
    ELSE LET rest == SortedNames(SubSeq(names, 1, Len(names) - 1))
             x == names[Len(names)]
             before == {k \in 1..Len(rest) : ~StrLess(x, rest[k])}
             n == Cardinality(before)
         IN  SubSeq(rest, 1, n) \o <<x>> \o SubSeq(rest, n + 1, Len(rest))

\* the state of a run before main starts
FreshRun ==
    /\ pc = "start"
    /\ cfg = [include_exts |-> {}, markers |-> <<>>, excluded_dirs |-> {}]
    /\ repos = <<>>
    /\ pending = <<>>
    /\ aggregated = <<>>
    /\ critical_found = FALSE
    /\ collected = <<>>
    /\ enumerated = {}
    /\ scanned = {}
    /\ remote_seen = {}
    /\ md_lines = <<>>
    /\ json_out = <<>>
    /\ exit_code = -1
    /\ crashed = FALSE

ScanIdle == sf_pc = "idle" /\ sf_in = <<>> /\ sf_out = <<>>

RemoteIdle == dr_pc = "idle" /\ dr_in = <<>> /\ dr_out = NoRemote

Init ==
    /\ run = 1
    /\ history = <<>>
    /\ \/ /\ files \in {S \in SUBSET FileUniverse : Cardinality(S) <= MaxFiles}
          /\ dirs = DirsOf(files)
          /\ \E c \in RunChoices : args = c.args /\ cwd = c.cwd
       \/ \* the root directory does not exist
          /\ files = {}
          /\ dirs = {}
          /\ \E c \in RunChoicesNoRoot : args = c.args /\ cwd = c.cwd
    /\ FreshRun
    /\ ScanIdle
    /\ RemoteIdle

\* an uncaught exception: the traceback is printed and the process exits with 1
Crash ==
    /\ crashed' = TRUE
    /\ exit_code' = 1
    /\ pc' = "exited"

\* main, to the list of repos: the arguments parsed, the repos named or discovered
Start ==
    /\ pc = "start"
    /\ cfg' = ParseConfig(args)
    /\ IF args.repos # <<>>
       THEN /\ repos' = CommaList(args.repos)
            /\ pending' = SortedNames(repos')
            /\ pc' = "scan"
            /\ UNCHANGED <<crashed, exit_code>>
       ELSE IF IsDir(dirs, <<>>)
       THEN /\ repos' \in ListingOrders(DiscoveredNames(dirs))
            /\ pending' = SortedNames(repos')
            /\ pc' = "scan"
            /\ UNCHANGED <<crashed, exit_code>>
       ELSE \* root.iterdir() raises
            /\ Crash
            /\ UNCHANGED <<repos, pending>>
    /\ UNCHANGED <<run, dirs, files, args, cwd, aggregated, critical_found, collected,
                   enumerated, scanned, remote_seen, md_lines, json_out, history>>

\* the remote info main uses for a repo
RemoteInfoFor(a, repo_name) ==
    IF a.no_remote_links THEN NoRemote ELSE DetectRemoteInfo(GitOf(repo_name))

\* the findings of the files of a repo, file after file
RepoFindings(flist, repo_name, remote_info, a, markers) ==
    Flatten([i \in 1..Len(flist) |-> FileFindings(flist[i], repo_name, remote_info, a, markers)])

\* one turn of the loop over sorted(repos)
ScanRepo ==
    /\ pc = "scan"
    /\ pending # <<>>
    /\ LET repo_name == Head(pending)
       IN  \/ /\ ~IsDir(dirs, <<repo_name>>)
              /\ UNCHANGED <<aggregated, critical_found, collected, enumerated, scanned,
                             remote_seen>>
           \/ /\ IsDir(dirs, <<repo_name>>)
              /\ \E flist \in CollectFiles(dirs, files, repo_name, cfg.include_exts,
                                           cfg.excluded_dirs) :
                    LET remote_info == RemoteInfoFor(args, repo_name)
                        items == RepoFindings(flist, repo_name, remote_info, args, cfg.markers)
                    IN  /\ aggregated' = AppendFindings(aggregated, repo_name, items)
                        /\ critical_found' =
                              (critical_found
                               \/ \E i \in 1..Len(items) : LooksCritical(items[i].text))
                        /\ collected' = collected \o items
                        /\ enumerated' = enumerated \cup {flist[i].path : i \in 1..Len(flist)}
                        /\ scanned' = scanned \cup {repo_name}
                        /\ remote_seen' = remote_seen \cup {<<repo_name, remote_info>>}
    /\ pending' = Tail(pending)
    /\ UNCHANGED <<pc, run, dirs, files, args, cwd, cfg, repos, md_lines, json_out,
                   exit_code, crashed, history>>

\* the sort of every repo's findings, once the loop is over
SortFindings ==
    /\ pc = "scan"
    /\ pending = <<>>
    /\ aggregated' = [k \in 1..Len(aggregated) |->
                         [repo |-> aggregated[k].repo, items |-> SortItems(aggregated[k].items)]]
    /\ pc' = "render"
    /\ UNCHANGED <<run, dirs, files, args, cwd, cfg, repos, pending, critical_found, collected,
                   enumerated, scanned, remote_seen, md_lines, json_out, exit_code, crashed,
                   history>>

\* whether md_out.write_text can open the file: its directory exists
CanWrite(ds, c, out_md) ==
    IF c.inside THEN IsDir(ds, c.path \o SubSeq(out_md, 1, Len(out_md) - 1))
    ELSE Len(out_md) = 1

\* the files after text was written to path
WriteFile(fs, path, lines) ==
    {f \in fs : f.path # path}
    \cup {[path |-> path, lines |-> lines, failAt |-> 0, unreadable |-> FALSE]}

\* the Markdown rendered and written to --out-md, relative to the working directory
WriteMarkdown ==
    /\ pc = "render"
    /\ md_lines' = RenderMarkdown(aggregated, repos, cfg.markers)
    /\ IF CanWrite(dirs, cwd, args.out_md)
       THEN /\ files' = IF cwd.inside
                        THEN WriteFile(files, cwd.path \o args.out_md, WrittenLines(md_lines'))
                        ELSE files
            /\ pc' = "json"
            /\ UNCHANGED <<crashed, exit_code>>
       ELSE /\ Crash
            /\ UNCHANGED files
    /\ UNCHANGED <<run, dirs, args, cwd, cfg, repos, pending, aggregated, critical_found,
                   collected, enumerated, scanned, remote_seen, json_out, history>>

\* the optional JSON: written to a path outside the root when --out-json is given
WriteJson ==
    /\ pc = "json"
    /\ json_out' = IF args.out_json # <<>>
                   THEN <<RenderJson(aggregated, repos, cfg.markers)>>
                   ELSE json_out
    /\ pc' = "summary"
    /\ UNCHANGED <<run, dirs, files, args, cwd, cfg, repos, pending, aggregated,
                   critical_found, collected, enumerated, scanned, remote_seen, md_lines,
                   exit_code, crashed, history>>

\* the summary, and the exit: sys.exit(1) when a critical finding was seen
Finish ==
    /\ pc = "summary"
    /\ exit_code' = IF critical_found THEN 1 ELSE 0
    /\ pc' = "exited"
    /\ UNCHANGED <<run, dirs, files, args, cwd, cfg, repos, pending, aggregated,
                   critical_found, collected, enumerated, scanned, remote_seen, md_lines,
                   json_out, crashed, history>>

\* what a run leaves for comparison with the next
RunRecord ==
    [md |-> md_lines, json |-> json_out, exit_code |-> exit_code, crashed |-> crashed,
     repos |-> repos, scanned |-> scanned, enumerated |-> enumerated]

\* the same command given again
Rerun ==
    /\ pc = "exited"
    /\ run < MaxRuns
    /\ run' = run + 1
    /\ history' = Append(history, RunRecord)
    /\ pc' = "start"
    /\ cfg' = [include_exts |-> {}, markers |-> <<>>, excluded_dirs |-> {}]
    /\ repos' = <<>>
    /\ pending' = <<>>
    /\ aggregated' = <<>>
    /\ critical_found' = FALSE
    /\ collected' = <<>>
    /\ enumerated' = {}
    /\ scanned' = {}
    /\ remote_seen' = {}
    /\ md_lines' = <<>>
    /\ json_out' = <<>>
    /\ exit_code' = -1
    /\ crashed' = FALSE
    /\ UNCHANGED <<dirs, files, args, cwd>>

Next ==
    /\ \/ Start
       \/ ScanRepo
       \/ SortFindings
       \/ WriteMarkdown
       \/ WriteJson
       \/ Finish
       \/ Rerun
    /\ UNCHANGED scanVars
    /\ UNCHANGED remoteVars

Spec == Init /\ [][Next]_vars

(***************************************************************************)
(* scan_file on its own: a file of up to MaxLines lines, a read that may   *)
(* raise at any line, and the --marker settings.                           *)
(***************************************************************************)
LineUniverse ==
    { <<"#", " ", "T", "O", "D", "O", ":", " ", "u", "r", "g", "e", "n", "t", " ", "f", "i", "x">>,
      <<"#", " ", "t", "o", "d", "o", ":", " ", "l", "o", "w", "e", "r", " ", "c", "a", "s", "e">>,
      <<"#", " ", "H", "A", "C", "K", ":", " ", "l", "a", "t", "e", "r">>,
      <<"x", " ", "=", " ", "1">>,
      <<"/", "/", " ", "T", "O", "D", "O", "(", "a", "l", "i", "c", "e", ")", ":", " ", "f", "i", "x", " ", "r", "a", "c", "e", " ", "c", "o", "n", "d", "i", "t", "i", "o", "n">>,
      <<"#", " ", "F", "I", "X", "M", "E", " ", "-", " ", "h", "a", "n", "d", "l", "e", " ", "n", "u", "l", "l", " ", "c", "a", "s", "e">>,
      <<"B", "u", "g", "(", "#", "7", ")", " ", "c", "r", "a", "s", "h">>,
      <<"d", "e", "b", "u", "g", " ", "T", "O", "D", "O", "_", "x">>,
      <<"h", "a", "c", "k", "-", "i", "s", "h", " ", "T", "o", "D", "o", " ", "(", "b", "o", "b", ")", " ", "n", "o", "w">> }

MarkerArgChoices == {Join(DEFAULT_MARKERS, <<",">>), <<"t", "o", "d", "o", ",", " ", "h", "a", "c", "k">>, <<"F", "i", "x", "m", "e">>}

RECURSIVE SeqsUpTo(_, _)
\* the sequences over S of length 1..n
SeqsUpTo(S, n) ==
    IF n = 0 THEN {}
    ELSE {<<x>> : x \in S} \cup {Append(s, x) : s \in SeqsUpTo(S, n - 1), x \in S}

\* main and detect_remote_info at rest, for the specifications of one function
MainIdle ==
    /\ run = 0
    /\ history = <<>>
    /\ files = {}
    /\ dirs = {}
    /\ args = DefaultArgs
    /\ cwd = Elsewhere
    /\ FreshRun

ScanInit ==
    /\ MainIdle
    /\ RemoteIdle
    /\ sf_pc = "call"
    /\ sf_out = <<>>
    /\ \E ls \in SeqsUpTo(LineUniverse, MaxLines), m \in MarkerArgChoices :
          \E k \in 0..Len(ls) :
             sf_in = [lines |-> ls, failAt |-> k,
                      markers |-> ParseConfig([DefaultArgs EXCEPT !.marker = m]).markers]

\* the call scan_file(path, markers)
ScanCall ==
    /\ sf_pc = "call"
    /\ sf_out' = ScanFile(sf_in.lines, sf_in.failAt, sf_in.markers)
    /\ sf_pc' = "done"
    /\ UNCHANGED <<sf_in, mainVars, remoteVars>>

ScanNext == ScanCall

SpecScan == ScanInit /\ [][ScanNext]_vars

(***************************************************************************)
(* detect_remote_info on its own: origin URLs put together from parts, and *)
(* each git command failing or not.                                        *)
(***************************************************************************)
UrlUniverse ==
    {pre \o host \o sep \o path \o suf :
        pre \in {<<"g", "i", "t", "@">>, <<"h", "t", "t", "p", "s", ":", "/", "/">>, <<"h", "t", "t", "p", ":", "/", "/">>, <<"s", "s", "h", ":", "/", "/", "g", "i", "t", "@">>, <<"b", "o", "b", "@">>, <<>>},
        host \in {<<"g", "i", "t", "h", "u", "b", ".", "c", "o", "m">>, <<"n", "o", "t", "g", "i", "t", "h", "u", "b", ".", "c", "o", "m">>, <<"d", "e", "v", ".", "a", "z", "u", "r", "e", ".", "c", "o", "m">>, <<"e", "x", "a", "m", "p", "l", "e", ".", "o", "r", "g">>, <<>>},
        sep \in {<<":">>, <<"/">>, <<>>},
        path \in {<<"o", "r", "g", "/", "r", "e", "p", "o">>, <<"r", "e", "p", "o">>, <<"o", "r", "g", "/">>, <<"/", "r", "e", "p", "o">>, <<"a", "/", "b", "/", "c">>, <<>>},
        suf \in {<<>>, <<".", "g", "i", "t">>}}

RemoteInit ==
    /\ MainIdle
    /\ ScanIdle
    /\ dr_pc = "call"
    /\ dr_out = NoRemote
    /\ \E u \in {GitFails} \cup {GitPrints(x) : x \in UrlUniverse},
          s \in {GitFails, GitPrints(<<"r", "e", "f", "s", "/", "r", "e", "m", "o", "t", "e", "s", "/", "o", "r", "i", "g", "i", "n", "/", "d", "e", "v">>)},
          r \in {GitFails, GitPrints(<<"f", "e", "a", "t", "u", "r", "e", "/", "x">>)} :
          dr_in = [url |-> u, symref |-> s, revparse |-> r]

\* the call detect_remote_info(repo_dir)
DetectCall ==
    /\ dr_pc = "call"
    /\ dr_out' = DetectRemoteInfo(dr_in)
    /\ dr_pc' = "done"
    /\ UNCHANGED <<dr_in, mainVars, scanVars>>

RemoteNext == DetectCall

SpecRemote == RemoteInit /\ [][RemoteNext]_vars

(***************************************************************************)
(* The properties.                                                         *)
(***************************************************************************)
\* main has rendered and written the Markdown of the current run
Rendered == pc \in {"json", "summary", "exited"} /\ ~crashed /\ md_lines # <<>>

\* the scan loop of the current run is over
LoopOver == pc \in {"render", "json", "summary"} \/ (pc = "exited" /\ md_lines # <<>>)

\* the text holds a critical keyword, whatever the letter case
HoldsCriticalKeyword(text) ==
    \E i \in 1..Len(text), w \in CRITICAL_WORDS :
        /\ i + Len(w) - 1 <= Len(text)
        /\ \A k \in 1..Len(w) : LowerChar(text[i + k - 1]) = w[k]

SomeFindingCritical == \E i \in 1..Len(collected) : HoldsCriticalKeyword(collected[i].text)

\* C1 as stated: in every run, the exit code is 1 if and only if a collected
\* finding's text holds a critical keyword (case-insensitively), and 0 otherwise.
C1_ExitIffCritical ==
    pc = "exited" =>
        /\ exit_code \in {0, 1}
        /\ exit_code = 1 <=> SomeFindingCritical

\* C1 amended: in every run that ends without an uncaught error, the exit code is 1
\* if and only if a collected finding's text holds a critical keyword
\* (case-insensitively) and 0 otherwise; a run ended by an uncaught error exits with 1
\* whatever was found.
C1_ExitIffCriticalUnlessCrashed ==
    pc = "exited" =>
        /\ exit_code \in {0, 1}
        /\ crashed => exit_code = 1
        /\ ~crashed => (exit_code = 1 <=> SomeFindingCritical)

C1_Witness ==
    /\ pc = "exited" /\ ~crashed /\ exit_code = 1
    /\ \E i \in 1..Len(collected) :
          HoldsCriticalKeyword(collected[i].text) /\ ~Contains(collected[i].text, <<"s", "e", "c", "u", "r", "i", "t", "y">>)

\* the names excluded in this run: the defaults and those of --extra-exclude
ExcludedNames ==
    DEFAULT_EXCLUDED_DIRS \cup SeqToSet(CommaList(args.extra_exclude))

IsExcludedName(n) == n \in ExcludedNames \/ (Len(n) > 0 /\ n[1] = ".")

\* the path of the file of a finding, from the root
FindingPath(it) == <<it.repo>> \o Split(it.file, "/")

\* some directory on the path, from the from-th name on, has an excluded name
UnderExcluded(path, from) == \E k \in from..(Len(path) - 1) : IsExcludedName(path[k])

\* C3 as stated: no file inside a directory with an excluded or dotted name is ever
\* enumerated by collect_files, and no finding comes from such a file.
C3_NoExcludedDirectory ==
    /\ \A p \in enumerated : ~UnderExcluded(p, 1)
    /\ \A i \in 1..Len(collected) : ~UnderExcluded(FindingPath(collected[i]), 1)

\* C3 amended: no file that lies, below the directory of the repo being scanned,
\* inside a directory with an excluded or dotted name is ever enumerated by
\* collect_files, and no finding comes from such a file; the name of the repo
\* directory itself is not tested.
C3_NoExcludedSubdirectory ==
    /\ \A p \in enumerated : ~UnderExcluded(p, 2)
    /\ \A i \in 1..Len(collected) : ~UnderExcluded(FindingPath(collected[i]), 2)

C3_Witness ==
    /\ LoopOver
    /\ enumerated # {}
    /\ \E f \in files :
          /\ f.path[1] \in scanned
          /\ Len(f.path) = 3
          /\ f.path[2][1] = "."
    /\ \E f \in files :
          /\ f.path[1] \in scanned
          /\ Len(f.path) = 3
          /\ f.path[2] \in ExcludedNames

\* the scanned repos in whose directory collect_files found no eligible file
ReposWithoutFiles == {r \in scanned : ~\E p \in enumerated : p[1] = r}

HasEntry(r) == \E k \in 1..Len(aggregated) : aggregated[k].repo = r

HasHeading(r) == \E i \in 1..Len(md_lines) : StartsWith(md_lines[i], <<"#", "#", " ">> \o r \o <<" ", "(">>)

\* C4 as stated: a scanned repo directory with zero eligible files gets a Report
\* entry with an empty finding list, and the Markdown holds its heading with count 0.
C4_EmptyRepoHasSection ==
    Rendered =>
        \A r \in ReposWithoutFiles :
            /\ \E k \in 1..Len(aggregated) : aggregated[k].repo = r /\ aggregated[k].items = <<>>
            /\ \E i \in 1..Len(md_lines) : md_lines[i] = <<"#", "#", " ">> \o r \o <<" ", "(", "0", ")">>

\* C4 amended: a scanned repo directory with zero eligible files (hence zero
\* findings) gets no Report entry and no section heading in the Markdown; it is
\* named only in the "Repos scanned" line of the header.
C4_EmptyRepoHasNoSection ==
    Rendered =>
        \A r \in ReposWithoutFiles :
            /\ ~HasEntry(r)
            /\ ~HasHeading(r)
            /\ \E k \in 1..Len(repos) : repos[k] = r
            /\ md_lines[5] = <<"-", " ", "R", "e", "p", "o", "s", " ", "s", "c", "a", "n", "n", "e", "d", ":", " ">> \o Join(repos, <<",", " ">>)

C4_Witness ==
    /\ Rendered
    /\ <<"e", "m", "p", "t", "y">> \in ReposWithoutFiles
    /\ Len(collected) > 0

\* the keyword w stands at q in the line, at a word boundary, in any letter case
KeywordAt(line, q, w) ==
    /\ q = 1 \/ ~IsWord(line[q - 1])
    /\ q + Len(w) - 1 <= Len(line)
    /\ \A k \in 1..Len(w) : UpperChar(line[q + k - 1]) = w[k]

\* the first marker occurrence of a line: the leftmost keyword of the vocabulary,
\* upper-cased; the empty string when the line has none
FirstKeyword(line, vocabulary) ==
    LET at == {q \in 1..Len(line) : \E w \in vocabulary : KeywordAt(line, q, w)}
    IN  IF at = {} THEN <<>>
        ELSE LET q == CHOOSE x \in at : \A y \in at : x <= y
             IN  CHOOSE w \in vocabulary : KeywordAt(line, q, w)

\* C2 as stated: for every line of a file read to its end whose first marker
\* occurrence, upper-cased, is in the configured marker set, scan_file yields an
\* entry for that line with the upper-case keyword as its marker; and the marker of
\* every entry is in the configured set.
C2_MarkersFollowConfiguredSet ==
    (sf_pc = "done" /\ sf_in.failAt = 0) =>
        LET configured == SeqToSet(sf_in.markers)
            vocabulary == configured \cup SeqToSet(PatternMarkers)
        IN  /\ \A i \in 1..Len(sf_in.lines) :
                  FirstKeyword(sf_in.lines[i], vocabulary) \in configured =>
                      \E j \in 1..Len(sf_out) :
                          /\ sf_out[j].line = i
                          /\ sf_out[j].marker = FirstKeyword(sf_in.lines[i], vocabulary)
            /\ \A j \in 1..Len(sf_out) : sf_out[j].marker \in configured

\* C5 as stated: a second run with the same arguments, from the same directory, on
\* the files the first run left, writes the same Markdown as the first, line for
\* line, and the same list of findings to the JSON, whatever the order in which the
\* file system lists directories and files in either run.
C5_SecondRunIdentical ==
    (run >= 2 /\ pc = "exited" /\ ~crashed /\ ~history[run - 1].crashed) =>
        /\ md_lines = history[run - 1].md
        /\ json_out # <<>> =>
              /\ history[run - 1].json # <<>>
              /\ json_out[1].items = history[run - 1].json[1].items

\* the hosts of the known hosting providers
KnownHosts == {<<"g", "i", "t", "h", "u", "b", ".", "c", "o", "m">>, <<"g", "i", "t", "l", "a", "b", ".", "c", "o", "m">>, <<"d", "e", "v", ".", "a", "z", "u", "r", "e", ".", "c", "o", "m">>}

\* the remote info main resolved for the repo has one of the known hosts
ResolvedOnKnownHost(repo_name) ==
    \E rs \in remote_seen : rs[1] = repo_name /\ rs[2].found /\ rs[2].host \in KnownHosts

\* C6 as stated: a finding has a link only if link generation is enabled, remote
\* info was resolved for its repo and the remote host is github.com, gitlab.com or
\* dev.azure.com; every other finding has an empty link and its bullet in the
\* Markdown shows the `file:line` location.
C6_LinksNeverFabricated ==
    /\ \A i \in 1..Len(collected) :
          collected[i].link # <<>> <=>
              (~args.no_remote_links /\ ResolvedOnKnownHost(collected[i].repo))
    /\ Rendered =>
          \A i \in 1..Len(collected) :
              collected[i].link = <<>> =>
                  \E k \in 1..Len(md_lines) :
                      StartsWith(md_lines[k],
                                 <<"-", " ", "BQ">> \o collected[i].file \o <<":">>
                                 \o Decimal(collected[i].line) \o <<"BQ">>)

\* the order of the outputs: by repo name, then marker, then file, then line
ListedBefore(x, y) ==
    \/ StrLess(x.repo, y.repo)
    \/ x.repo = y.repo /\ StrLess(x.marker, y.marker)
    \/ x.repo = y.repo /\ x.marker = y.marker /\ StrLess(x.file, y.file)
    \/ x.repo = y.repo /\ x.marker = y.marker /\ x.file = y.file /\ x.line < y.line

RECURSIVE OrderedFindings(_)
\* the findings put in the order of the outputs
OrderedFindings(s) ==
    IF Len(s) = 0 THEN <<>>
    ELSE LET i == CHOOSE k \in 1..Len(s) : \A j \in 1..Len(s) : ~ListedBefore(s[j], s[k])
         IN  <<s[i]>> \o OrderedFindings(SubSeq(s, 1, i - 1) \o SubSeq(s, i + 1, Len(s)))

\* the lines of the Markdown that start with the prefix, from the from-th line on
LinesWith(lines, prefix, from) ==
    LET at == {k \in from..Len(lines) : StartsWith(lines[k], prefix)}
        RECURSIVE Pick(_)
        Pick(k) == IF k > Len(lines) THEN <<>>
                   ELSE (IF k \in at THEN <<lines[k]>> ELSE <<>>) \o Pick(k + 1)
    IN  Pick(from)

\* the count a heading ends with: "... (n)"
HeadingCount(line) ==
    CHOOSE n \in 0..Len(collected) + 1 :
        n = Len(collected) + 1 \/ EndsWith(line, <<" ", "(">> \o Decimal(n) \o <<")">>)

\* the line of the header that gives the total; the sections come after it
TotalLineAt == CHOOSE k \in 1..Len(md_lines) : StartsWith(md_lines[k], <<"*", "*", "T", "o", "t", "a", "l", " ", "i", "t", "e", "m", "s", ":", "*", "*", " ">>)

\* C7: once the outputs are written, the Markdown's total is the number of collected
\* findings, and so is the sum of the counts of the repo headings and the sum of the
\* counts of the marker headings; the bullets are the collected findings, each once,
\* in the order repo name, marker, file, line; the JSON count is the length of its
\* items, and the items are the collected findings in that same order.
C7_RenderingConservesFindings ==
    (Rendered /\ pc \in {"summary", "exited"}) =>
        LET ordered == OrderedFindings(collected)
            repo_heads == LinesWith(md_lines, <<"#", "#", " ">>, TotalLineAt + 1)
            marker_heads == LinesWith(md_lines, <<"#", "#", "#", " ">>, TotalLineAt + 1)
            bullets == LinesWith(md_lines, <<"-", " ">>, TotalLineAt + 1)
        IN  /\ md_lines[TotalLineAt] = <<"*", "*", "T", "o", "t", "a", "l", " ", "i", "t", "e", "m", "s", ":", "*", "*", " ">> \o Decimal(Len(collected))
            /\ SumSeq([k \in 1..Len(repo_heads) |-> HeadingCount(repo_heads[k])])
                  = Len(collected)
            /\ SumSeq([k \in 1..Len(marker_heads) |-> HeadingCount(marker_heads[k])])
                  = Len(collected)
            /\ bullets = [i \in 1..Len(ordered) |-> BulletLine(ordered[i])]
            /\ json_out # <<>> =>
                  /\ json_out[1].count = Len(json_out[1].items)
                  /\ json_out[1].items = ordered

C7_Witness ==
    /\ pc = "exited" /\ Rendered
    /\ json_out # <<>>
    /\ Len(collected) >= 3
    /\ collected # OrderedFindings(collected)
    /\ \E i, j \in 1..Len(collected) : collected[i].repo # collected[j].repo

\* the directory under the root the run is made from, if it is one
OwnDirectory == IF cwd.inside /\ Len(cwd.path) = 1 THEN {cwd.path[1]} ELSE {}

\* C8 as stated: with no --repos, the repos scanned are exactly the directories
\* directly in the root except the directory the run is made from.
C8_DiscoveryExceptOwnDirectory ==
    (LoopOver /\ args.repos = <<>>) =>
        scanned = SubdirNames(dirs, <<>>) \ OwnDirectory

\* C8 amended: with no --repos, the repos scanned are exactly the directories
\* directly in the root whose name is not 'super', whatever directory the run is
\* made from; a run made from another directory of the root scans that directory,
\* the outputs it wrote there included.
C8_DiscoveryExceptSuper ==
    (LoopOver /\ args.repos = <<>>) =>
        /\ scanned = {d[1] : d \in {p \in dirs : Len(p) = 1 /\ p[1] # <<"s", "u", "p", "e", "r">>}}
        /\ SeqToSet(repos) = scanned

C8_Witness ==
    /\ LoopOver /\ args.repos = <<>>
    /\ cwd = Inside(<<<<"t", "o", "o", "l", "s">>>>)
    /\ <<"t", "o", "o", "l", "s">> \in scanned
    /\ <<<<"s", "u", "p", "e", "r">>>> \in dirs
    /\ run = 2
    /\ \E p \in enumerated : p = <<<<"t", "o", "o", "l", "s">>, <<"T", "O", "D", "O", ".", "m", "d">>>>

\* the record has every field, each well-formed
WellFormedRecord(info) ==
    LET segments == Split(info.orgrepo, "/")
    IN  /\ info.host # <<>>
        /\ Len(segments) = 2
        /\ segments[1] # <<>>
        /\ segments[2] # <<>>
        /\ info.repo # <<>>
        /\ info.default_branch # <<>>

\* C9 as stated: whatever the origin URL and whichever git commands fail,
\* detect_remote_info returns no remote info or a record with a non-empty host, an
\* org/repo of exactly two non-empty segments, a non-empty repo name and a non-empty
\* branch.
C9_RemoteInfoAllOrNothing ==
    (dr_pc = "done" /\ dr_out.found) => WellFormedRecord(dr_out)

\* C10 as stated: when the read of a file fails, on open or after some lines,
\* scan_file returns no finding for the file.
C10_ReadFailureYieldsNothing ==
    (sf_pc = "done" /\ sf_in.failAt > 0) => sf_out = <<>>

====
